---- MODULE Spec2Model ----
(***************************************************************************)
(* StudyMate (src/main.py): a Streamlit script that is re-run from top to  *)
(* bottom on every user interaction.  One action of this module is one     *)
(* re-run of the script with at most one widget triggered.  Texts are      *)
(* sequences of one-character strings.                                     *)
(***************************************************************************)
EXTENDS Integers, Sequences, FiniteSets, TLC

(* ------------------------------------------------------------------------ *)
(* Bounds of the model                                                      *)
(* ------------------------------------------------------------------------ *)
\* chunk_size / chunk_overlap of get_chunks (2000 / 200 in the source), scaled
ChunkSize == 4
ChunkOverlap == 1
\* longest text given to the chunker in SpecChunks
MaxLen == 6

\* k of similarity_search
TopK == 3
\* most rows of the files table, most messages of one chat history
MaxFileRows == 2
MaxHist == 2
\* the same for SpecShared
MaxSharedRows == 1
MaxSharedHist == 1
\* most chunks of an index in SpecSearch
MaxChunks == 4

(* ------------------------------------------------------------------------ *)
(* Text helpers                                                             *)
(* ------------------------------------------------------------------------ *)
Max(a, b) == IF a >= b THEN a ELSE b
Min(a, b) == IF a <= b THEN a ELSE b

Whitespace == {" ", "\n", "\t"}

\* str.join
RECURSIVE Join(_, _)
Join(ss, sep) ==
    IF ss = <<>> THEN <<>>
    ELSE IF Len(ss) = 1 THEN ss[1]
    ELSE ss[1] \o sep \o Join(Tail(ss), sep)

\* str.strip(): leading and trailing whitespace removed
RECURSIVE LStrip(_)
LStrip(t) == IF t # <<>> /\ Head(t) \in Whitespace THEN LStrip(Tail(t)) ELSE t
RECURSIVE RStrip(_)
RStrip(t) ==
    IF t # <<>> /\ t[Len(t)] \in Whitespace THEN RStrip(SubSeq(t, 1, Len(t) - 1)) ELSE t
Strip(t) == RStrip(LStrip(t))

MatchAt(t, i, sep) ==
    /\ i + Len(sep) - 1 <= Len(t)
    /\ SubSeq(t, i, i + Len(sep) - 1) = sep
\* re.search(re.escape(sep), t) for a non-empty literal separator
Found(t, sep) == \E i \in 1..Len(t) : MatchAt(t, i, sep)

NonEmpty(ss) == SelectSeq(ss, LAMBDA s : s # <<>>)

(* ------------------------------------------------------------------------ *)
(* RecursiveCharacterTextSplitter(chunk_size, chunk_overlap).split_text     *)
(* with the library defaults: separators ["\n\n", "\n", " ", ""],           *)
(* keep_separator=True, strip_whitespace=True, length_function=len.         *)
(* ------------------------------------------------------------------------ *)
Separators == << <<"\n", "\n">>, <<"\n">>, <<" ">>, <<>> >>

\* re.split(f"({sep})", t) with every separator glued to the piece after it
RECURSIVE SplitScan(_, _, _, _, _)
SplitScan(t, sep, i, cur, acc) ==
    IF i > Len(t) THEN Append(acc, cur)
    ELSE IF MatchAt(t, i, sep)
         THEN SplitScan(t, sep, i + Len(sep), sep, Append(acc, cur))
         ELSE SplitScan(t, sep, i + 1, Append(cur, t[i]), acc)

\* _split_text_with_regex(text, separator, keep_separator=True)
split_text_with_regex(t, sep) ==
    IF sep # <<>>
    THEN NonEmpty(SplitScan(t, sep, 1, <<>>, <<>>))
    ELSE [i \in 1..Len(t) |-> <<t[i]>>]

\* faulty variant, used to test the properties: _join_docs without the strip
join_docs_unstripped(docs, sep) ==
    LET text == Join(docs, sep)
    IN  IF text = <<>> THEN <<>> ELSE <<text>>

\* TextSplitter._join_docs: the joined text stripped, dropped when empty
join_docs(docs, sep) ==
    LET text == Strip(Join(docs, sep))
    IN  IF text = <<>> THEN <<>> ELSE <<text>>

\* the "keep on popping" loop of _merge_splits
RECURSIVE PopLoop(_, _, _, _, _, _)
PopLoop(cur, total, len, sepLen, size, overlap) ==
    IF \/ total > overlap
       \/ /\ total + len + (IF Len(cur) > 0 THEN sepLen ELSE 0) > size
          /\ total > 0
    THEN PopLoop(Tail(cur),
                 total - (Len(cur[1]) + (IF Len(cur) > 1 THEN sepLen ELSE 0)),
                 len, sepLen, size, overlap)
    ELSE [cur |-> cur, total |-> total]

\* TextSplitter._merge_splits: the loop over the splits from index i on
RECURSIVE MergeLoop(_, _, _, _, _, _, _, _)
MergeLoop(splits, i, docs, cur, total, sep, size, overlap) ==
    IF i > Len(splits) THEN docs \o join_docs(cur, sep)
    ELSE
      LET d == splits[i]
          len == Len(d)
          over == total + len + (IF Len(cur) > 0 THEN Len(sep) ELSE 0) > size
          emit == over /\ Len(cur) > 0
          docs2 == IF emit THEN docs \o join_docs(cur, sep) ELSE docs
          kept == IF emit THEN PopLoop(cur, total, len, Len(sep), size, overlap)
                  ELSE [cur |-> cur, total |-> total]
          cur2 == Append(kept.cur, d)
          total2 == kept.total + len + (IF Len(cur2) > 1 THEN Len(sep) ELSE 0)
      IN MergeLoop(splits, i + 1, docs2, cur2, total2, sep, size, overlap)

merge_splits(splits, sep, size, overlap) ==
    MergeLoop(splits, 1, <<>>, <<>>, 0, sep, size, overlap)

\* the separator chosen by _split_text: the first of seps that is "" or occurs in t
RECURSIVE PickSep(_, _, _)
PickSep(t, seps, i) ==
    IF i > Len(seps) THEN [sep |-> seps[Len(seps)], rest |-> <<>>]
    ELSE IF seps[i] = <<>> THEN [sep |-> <<>>, rest |-> <<>>]
    ELSE IF Found(t, seps[i])
         THEN [sep |-> seps[i], rest |-> SubSeq(seps, i + 1, Len(seps))]
         ELSE PickSep(t, seps, i + 1)

RECURSIVE split_text(_, _, _, _)
RECURSIVE SplitLoop(_, _, _, _, _, _, _)
\* the "for s in splits" loop of _split_text (keep_separator: merged with "")
SplitLoop(splits, i, good, final, rest, size, overlap) ==
    IF i > Len(splits)
    THEN IF good # <<>> THEN final \o merge_splits(good, <<>>, size, overlap) ELSE final
    ELSE
      LET s == splits[i] IN
      IF Len(s) < size
      THEN SplitLoop(splits, i + 1, Append(good, s), final, rest, size, overlap)
      ELSE
        LET flushed == IF good # <<>>
                       THEN final \o merge_splits(good, <<>>, size, overlap)
                       ELSE final
            more == IF rest = <<>> THEN <<s>> ELSE split_text(s, rest, size, overlap)
        IN SplitLoop(splits, i + 1, <<>>, flushed \o more, rest, size, overlap)

\* RecursiveCharacterTextSplitter._split_text
split_text(t, seps, size, overlap) ==
    LET p == PickSep(t, seps, 1)
    IN  SplitLoop(split_text_with_regex(t, p.sep), 1, <<>>, <<>>, p.rest, size, overlap)

get_chunks(text) == split_text(text, Separators, ChunkSize, ChunkOverlap)


(* ------------------------------------------------------------------------ *)
(* Embedding and the FAISS index                                            *)
(* ------------------------------------------------------------------------ *)
\* squared L2 distance of IndexFlatL2
Dist(u, v) == (u[1] - v[1]) * (u[1] - v[1]) + (u[2] - v[2]) * (u[2] - v[2])

\* FAISS.from_texts(chunks, embeddings): one vector per chunk, in order.
\* (from_texts raises on an empty list: see BuildOk)
get_vector_store(chunks, e) ==
    [texts |-> chunks, vecs |-> [i \in 1..Len(chunks) |-> e[chunks[i]]]]

\* FAISS.from_texts succeeds when the embedding call succeeds and there is
\* at least one vector to size the index with (embeddings[0])
BuildOk(chunks, svcOk) == svcOk /\ chunks # <<>>

\* faulty variant, used to test the properties: a search that returns the first k stored vectors, whatever the query
RECURSIVE FlatSearchUnsorted(_, _, _, _)
FlatSearchUnsorted(vecs, qv, k, taken) ==
    IF k = 0 THEN <<>>
    ELSE
      LET left == (1..Len(vecs)) \ taken IN
      IF left = {} THEN <<-1>> \o FlatSearchUnsorted(vecs, qv, k - 1, taken)
      ELSE
        LET best == CHOOSE i \in left : \A j \in left : i <= j
        IN <<best>> \o FlatSearchUnsorted(vecs, qv, k - 1, taken \cup {best})

\* IndexFlatL2.search: the k nearest stored vectors, nearest first, as indices,
\* padded with -1 when fewer than k vectors are stored
RECURSIVE FlatSearch(_, _, _, _)
FlatSearch(vecs, qv, k, taken) ==
    IF k = 0 THEN <<>>
    ELSE
      LET left == (1..Len(vecs)) \ taken IN
      IF left = {} THEN <<-1>> \o FlatSearch(vecs, qv, k - 1, taken)
      ELSE
        LET best == CHOOSE i \in left :
                      \A j \in left :
                         \/ Dist(vecs[i], qv) < Dist(vecs[j], qv)
                         \/ Dist(vecs[i], qv) = Dist(vecs[j], qv) /\ i <= j
        IN <<best>> \o FlatSearch(vecs, qv, k - 1, taken \cup {best})

\* FAISS.similarity_search(query, k): the documents of the indices found,
\* the -1 paddings skipped
similarity_search(db, qv, k) ==
    LET idx == SelectSeq(FlatSearch(db.vecs, qv, k, {}), LAMBDA i : i # -1)
    IN  idx

\* get_rel_text: page_content of each result
get_rel_text(q, db, e) ==
    LET idx == similarity_search(db, e[q], TopK)
    IN  [n \in 1..Len(idx) |-> db.texts[idx[n]]]

(* ------------------------------------------------------------------------ *)
(* The prompt of the notes bot                                              *)
(* ------------------------------------------------------------------------ *)
\* faulty variant, used to test the properties: the chunks joined without the separator
ComposePromptNoSeparator(rel_texts, q) ==
    <<"Context: ">> \o Join(rel_texts, <<>>) \o <<"\n\nQuestion: ">> \o q
      \o <<"\nAnswer as a tutor:">>

\* f"Context: {' '.join(rel_texts)}\n\nQuestion: {q}\nAnswer as a tutor:"
ComposePrompt(rel_texts, q) ==
    <<"Context: ">> \o Join(rel_texts, <<" ">>) \o <<"\n\nQuestion: ">> \o q
      \o <<"\nAnswer as a tutor:">>

(* ------------------------------------------------------------------------ *)
(* The sets the inputs are drawn from                                       *)
(* ------------------------------------------------------------------------ *)
Sessions == {"s1", "s2"}
Emails == {"e1", "e2"}
Passwords == {"pw", "bad"}
FileNames == {"n1", "n2"}
\* extracted text of the PDFs a user uploads (the empty one: a scan without text)
FileTexts == { <<>>,
               <<"a", "b", " ", "a", "a">>,
               <<"b", "b", "\n", "a", " ", "b", "a", "b", "b">> }
\* the questions typed into the notes chat and into the study chat
Questions == { <<"a", "?">> }
StudyQuestion == <<"b", "?">>
StudyReply == "r1"
\* the file text and the question of SpecShared
SharedText == <<"a", "b", " ", "a", "a">>
SharedQuestion == <<"a", "?">>
Responses == {"r1", "r2"}

\* texts of SpecChunks
Alphabet == {"a", "b", " ", "\n", "\t"}
RECURSIVE TextsUpTo(_)
TextsUpTo(n) ==
    IF n = 0 THEN { <<>> }
    ELSE LET shorter == TextsUpTo(n - 1)
         IN  shorter \cup { Append(t, c) : t \in { u \in shorter : Len(u) = n - 1 },
                                           c \in Alphabet }

\* chunk texts and vectors of SpecSearch
ChunkTexts == { <<"a">>, <<"b">>, <<"a", "b">> }
QueryText == <<"a", "?">>
Vecs == { <<0, 0>>, <<1, 0>>, <<0, 1>>, <<2, 1>> }
RECURSIVE SeqsUpTo(_, _)
SeqsUpTo(S, n) ==
    IF n = 0 THEN { <<>> }
    ELSE LET shorter == SeqsUpTo(S, n - 1)
         IN  shorter \cup { Append(t, c) : t \in { u \in shorter : Len(u) = n - 1 },
                                           c \in S }

\* the embedding used by the session model: a fixed deterministic function
RECURSIVE Count(_, _)
Count(t, c) ==
    IF t = <<>> THEN 0 ELSE (IF Head(t) = c THEN 1 ELSE 0) + Count(Tail(t), c)
Embed(t) == <<Count(t, "a"), Count(t, "b")>>

(* ------------------------------------------------------------------------ *)
(* State                                                                    *)
(* ------------------------------------------------------------------------ *)
VARIABLES
    users,      \* users table: rows [email, password], user_id = row number
    files,      \* files table: rows [user_id, file_name, file_path]
    disk,       \* UPLOAD_DIR: file_path -> extracted text of the stored PDF
    ss,         \* st.session_state of each browser session: key -> value
    sel,        \* value of the "Select File" selectbox of each session
    prov,       \* of the index in ss[s]: the file, user and session that built it
    out,        \* what the latest re-run did (calls made, text shown, exception)
    emb,        \* the embedding service: text -> vector
    text,       \* SpecChunks: the input text
    chunks,     \* SpecChunks: get_chunks(text) once computed
    docs,       \* SpecSearch: the chunks to index
    store,      \* SpecSearch: the index built from docs
    results,    \* SpecSearch: what get_rel_text returned
    pc          \* SpecChunks / SpecSearch: position

vars == <<users, files, disk, ss, sel, prov, out, emb, text, chunks, docs, store,
          results, pc>>
sessionVars == <<users, files, disk, ss, sel, prov, out>>
pureVars == <<text, chunks, docs, store, results, pc>>

None == "none"
\* stands for "no index": from_texts never builds an index without vectors
NoDb == [texts |-> <<>>, vecs |-> <<>>]
NoProv == [src |-> None, owner |-> 0, sess |-> None, path |-> <<>>]
NoUser == 0
NoUpload == [name |-> None, text |-> <<>>]

Has(s, key) == key \in DOMAIN ss[s]
LoggedIn(s) == Has(s, "user_id")
Uid(s) == ss[s]["user_id"]

\* hash_password: sha256 hex digest
hash_password(pw) == <<"sha256", pw>>

\* os.path.join(UPLOAD_DIR, f"{user_id}_{file_name}")
FilePath(uid, name) == <<uid, name>>

\* get_user_files(user_id)
get_user_files(uid) == SelectSeq(files, LAMBDA r : r.user_id = uid)

\* lines 121-122: "messages" is created when the session does not hold it
Base(s) == IF Has(s, "messages") THEN ss[s] ELSE ss[s] @@ ("messages" :> <<>>)

Put(f, key, val) == (key :> val) @@ f

Out(s, op) ==
    [sess |-> IF op = "other" THEN None ELSE s, op |-> op, exc |-> FALSE, sel |-> None, db |-> NoDb,
     retrieved |-> FALSE, rel |-> <<>>, q |-> <<>>, prompts |-> <<>>,
     resp |-> None, answer |-> <<>>]

\* the value the selectbox shows: the kept one when still an option, else the first
Selected(s, options) == IF sel[s] \in { options[i] : i \in 1..Len(options) }
                        THEN sel[s] ELSE options[1]

(* ------------------------------------------------------------------------ *)
(* Init                                                                     *)
(* ------------------------------------------------------------------------ *)
\* get_chunks of every text a file can hold, computed once
ChunkTable == [x \in FileTexts |-> get_chunks(x)]

SessionTexts == UNION { { ChunkTable[x][i] : i \in 1..Len(ChunkTable[x]) }
                        : x \in FileTexts } \cup Questions

InitSession ==
    /\ users = <<>>
    /\ files = <<>>
    /\ disk = <<>>
    /\ ss = [s \in Sessions |-> <<>>]
    /\ sel = [s \in Sessions |-> None]
    /\ prov = [s \in Sessions |-> NoProv]
    /\ out = Out(None, "start")

InitPure ==
    /\ text = <<>>
    /\ chunks = <<>>
    /\ docs = <<>>
    /\ store = NoDb
    /\ results = <<>>
    /\ pc = "session"

Init ==
    /\ InitSession
    /\ InitPure
    /\ emb = [t \in SessionTexts |-> Embed(t)]

(* ------------------------------------------------------------------------ *)
(* Login / Signup page                                                      *)
(* ------------------------------------------------------------------------ *)
\* sign_up: the row inserted unless the email is taken (IntegrityError)
sign_up(email, pw) ==
    IF \E i \in 1..Len(users) : users[i].email = email
    THEN users
    ELSE Append(users, [email |-> email, password |-> hash_password(pw)])

\* login: the user_id of the matching row, or NoUser (fetchone() gave None)
login(email, pw) ==
    LET hit == { i \in 1..Len(users) :
                   users[i].email = email /\ users[i].password = hash_password(pw) }
    IN  IF hit = {} THEN NoUser ELSE CHOOSE i \in hit : \A j \in hit : i <= j

\* "Create Account" pressed
SignUp(s, email, pw) ==
    /\ ~LoggedIn(s)
    /\ users' = sign_up(email, pw)
    /\ ss' = [ss EXCEPT ![s] = Base(s)]
    /\ sel' = [sel EXCEPT ![s] = None]
    /\ out' = Out(s, "other")
    /\ UNCHANGED <<files, disk, prov, emb, pureVars>>

\* session state after a successful login: the user and an empty chat history
LoggedInState(s, uid) ==
    LET b == Base(s)
    IN  Put(Put(b, "user_id", uid), "messages", Put(b["messages"], uid, <<>>))

\* "Login" pressed
Login(s, email, pw) ==
    /\ ~LoggedIn(s)
    /\ LET user == login(email, pw) IN
         /\ ss' = [ss EXCEPT ![s] = IF user # NoUser THEN LoggedInState(s, user)
                                    ELSE Base(s)]
         /\ out' = Out(s, "other")
    /\ sel' = [sel EXCEPT ![s] = None]
    /\ UNCHANGED <<users, files, disk, prov, emb, pureVars>>

\* faulty variant, used to test the properties: a logout that forgets the user but keeps the rest of the session
LogoutKeepsSession(s) == [k \in DOMAIN ss[s] \ {"user_id"} |-> ss[s][k]]

\* st.session_state.clear()
LoggedOutState(s) == <<>>

\* "Logout" pressed
Logout(s) ==
    /\ LoggedIn(s)
    /\ ss' = [ss EXCEPT ![s] = LoggedOutState(s)]
    /\ sel' = [sel EXCEPT ![s] = None]
    /\ prov' = [prov EXCEPT ![s] = IF "notes_db" \in DOMAIN ss'[s] THEN prov[s] ELSE NoProv]
    /\ out' = Out(s, "logout")
    /\ UNCHANGED <<users, files, disk, emb, pureVars>>

\* a re-run that triggers nothing: the menu or a radio changed
Navigate(s) ==
    /\ ss' = [ss EXCEPT ![s] = Base(s)]
    /\ sel' = [sel EXCEPT ![s] = None]
    /\ out' = Out(s, "other")
    /\ UNCHANGED <<users, files, disk, prov, emb, pureVars>>

(* ------------------------------------------------------------------------ *)
(* Study Assistant Bot page                                                 *)
(* ------------------------------------------------------------------------ *)
UserMsg(q) == [role |-> "user", parts |-> <<q>>]
ModelMsg(r) == [role |-> "model", parts |-> <<r>>]

\* st.session_state.messages.get(user_id, [])
ChatHistory(s) ==
    LET m == Base(s)["messages"]
    IN  IF Uid(s) \in DOMAIN m THEN m[Uid(s)] ELSE <<>>

\* chat_history.append(...): chat_history is the list object held in
\* st.session_state.messages when the key is there, so the stored history grows
AfterAppend(s, msg) ==
    LET b == Base(s)
        m == b["messages"]
    IN  IF Uid(s) \in DOMAIN m
        THEN Put(b, "messages", Put(m, Uid(s), Append(m[Uid(s)], msg)))
        ELSE b

\* line 214: the history with both messages stored under the user
AfterTurn(s, q, r) ==
    LET b == Base(s)
    IN  Put(b, "messages",
            Put(b["messages"], Uid(s), ChatHistory(s) \o <<UserMsg(q), ModelMsg(r)>>))

\* a question entered in the study chat; sendOk: send_message returned r
StudyTurn(s, q, sendOk, r, maxHist) ==
    /\ LoggedIn(s)
    /\ Len(ChatHistory(s)) + (IF sendOk THEN 2 ELSE 1) <= maxHist
    /\ ss' = [ss EXCEPT ![s] = IF sendOk THEN AfterTurn(s, q, r)
                               ELSE AfterAppend(s, UserMsg(q))]
    /\ sel' = [sel EXCEPT ![s] = None]
    /\ out' = [Out(s, "study") EXCEPT !.exc = ~sendOk, !.q = q,
                 !.resp = IF sendOk THEN r ELSE None,
                 !.answer = IF sendOk THEN <<r>> ELSE <<>>]
    /\ UNCHANGED <<users, files, disk, prov, emb, pureVars>>

(* ------------------------------------------------------------------------ *)
(* Notes Bot page: Upload Notes                                             *)
(* ------------------------------------------------------------------------ *)
\* lines 225-230: the uploaded file written under the user's path
Written(uid, up) == IF up = NoUpload THEN disk ELSE Put(disk, FilePath(uid, up.name), up.text)

\* a file put into the uploader
Upload(s, up) ==
    /\ LoggedIn(s)
    /\ disk' = Written(Uid(s), up)
    /\ ss' = [ss EXCEPT ![s] = Base(s)]
    /\ sel' = [sel EXCEPT ![s] = None]
    /\ out' = Out(s, "other")
    /\ UNCHANGED <<users, files, prov, emb, pureVars>>

\* save_file
save_file(uid, name, path) ==
    Append(files, [user_id |-> uid, file_name |-> name, file_path |-> path])

\* "Save" pressed with a file in the uploader
Save(s, up, maxRows) ==
    /\ LoggedIn(s)
    /\ Len(files) < maxRows
    /\ disk' = Written(Uid(s), up)
    /\ files' = save_file(Uid(s), up.name, FilePath(Uid(s), up.name))
    /\ ss' = [ss EXCEPT ![s] = Base(s)]
    /\ sel' = [sel EXCEPT ![s] = None]
    /\ out' = Out(s, "other")
    /\ UNCHANGED <<users, prov, emb, pureVars>>

\* delete_file
delete_file(uid, name) ==
    SelectSeq(files, LAMBDA r : ~(r.user_id = uid /\ r.file_name = name))

\* os.remove(fpath) when it exists
Removed(d, path) == [p \in DOMAIN d \ {path} |-> d[p]]

\* "Delete <fname>" pressed, with or without a file in the uploader
Delete(s, fname, up) ==
    /\ LoggedIn(s)
    /\ \E i \in 1..Len(files) : files[i].user_id = Uid(s) /\ files[i].file_name = fname
    /\ LET row == CHOOSE r \in { files[i] : i \in 1..Len(files) } :
                     r.user_id = Uid(s) /\ r.file_name = fname
       IN  disk' = Removed(Written(Uid(s), up), row.file_path)
    /\ files' = delete_file(Uid(s), fname)
    /\ ss' = [ss EXCEPT ![s] = Base(s)]
    /\ sel' = [sel EXCEPT ![s] = None]
    /\ out' = Out(s, "other")
    /\ UNCHANGED <<users, prov, emb, pureVars>>

(* ------------------------------------------------------------------------ *)
(* Notes Bot page: Chat with Notes                                          *)
(* ------------------------------------------------------------------------ *)
\* [f[0] for f in files]
Options(uid) == LET fs == get_user_files(uid) IN [i \in 1..Len(fs) |-> fs[i].file_name]

\* lines 245-250: the page shows the selectbox
ChatPage(s) == LoggedIn(s) /\ get_user_files(Uid(s)) # <<>>

\* another file chosen in the selectbox
SelectFile(s, f) ==
    /\ ChatPage(s)
    /\ \E i \in 1..Len(Options(Uid(s))) : Options(Uid(s))[i] = f
    /\ sel' = [sel EXCEPT ![s] = f]
    /\ ss' = [ss EXCEPT ![s] = Base(s)]
    /\ out' = Out(s, "other")
    /\ UNCHANGED <<users, files, disk, prov, emb, pureVars>>

\* [f[1] for f in files if f[0] == selected_file][0]
PathOf(uid, name) ==
    LET fs == SelectSeq(get_user_files(uid), LAMBDA r : r.file_name = name)
    IN  fs[1].file_path

\* faulty variant, used to test the properties: the new chunks added to the index the session holds
StoreIndexMerged(s, db) ==
    IF Has(s, "notes_db")
    THEN Put(Base(s), "notes_db", [texts |-> ss[s]["notes_db"].texts \o db.texts,
                                   vecs |-> ss[s]["notes_db"].vecs \o db.vecs])
    ELSE Put(Base(s), "notes_db", db)

\* line 257: the new index replaces whatever the session held
StoreIndex(s, db) == Put(Base(s), "notes_db", db)

\* "Process File" pressed; svcOk: reading the PDF and the embedding call succeed
ProcessFile(s, svcOk) ==
    /\ ChatPage(s)
    /\ LET name == Selected(s, Options(Uid(s)))
           path == PathOf(Uid(s), name)
           readable == path \in DOMAIN disk
           cs == IF readable THEN ChunkTable[disk[path]] ELSE <<>>
           ok == readable /\ BuildOk(cs, svcOk)
       IN  /\ ss' = [ss EXCEPT ![s] = IF ok THEN StoreIndex(s, get_vector_store(cs, emb))
                                      ELSE Base(s)]
           /\ prov' = [prov EXCEPT ![s] =
                         IF ok THEN [src |-> name, owner |-> Uid(s), sess |-> s, path |-> path]
                         ELSE prov[s]]
           /\ sel' = [sel EXCEPT ![s] = name]
           /\ out' = [Out(s, "process") EXCEPT
                        !.exc = ~ok, !.sel = name,
                        !.db = IF Has(s, "notes_db") THEN ss[s]["notes_db"] ELSE NoDb]
    /\ UNCHANGED <<users, files, disk, emb, pureVars>>

\* faulty variant, used to test the properties: the chat input shown without an index
ChatInputAlways(s) == ChatPage(s)

\* line 260: the chat input is shown
ChatInputShown(s) == ChatPage(s) /\ Has(s, "notes_db")

\* faulty variant, used to test the properties: a failed question throws the index away
AfterQueryDropsIndex(s, answered) ==
    IF answered THEN Base(s) ELSE [k \in DOMAIN Base(s) \ {"notes_db"} |-> Base(s)[k]]

\* session state after a question to the notes: nothing is stored
AfterQuery(s, answered) == Base(s)

\* what the page shows for a question: the response, when there is one
Shown(genOk, r) == IF genOk THEN <<r>> ELSE <<>>

\* a question entered in the notes chat; searchOk: the query embedding and the
\* search succeed; genOk: generate_content returned r
Query(s, q, searchOk, genOk, r) ==
    /\ ChatInputShown(s)
    /\ LET db == IF Has(s, "notes_db") THEN ss[s]["notes_db"] ELSE NoDb
           found == searchOk /\ db # NoDb
           rel == IF found THEN get_rel_text(q, db, emb) ELSE <<>>
           answered == found /\ genOk
       IN  /\ out' = [Out(s, "query") EXCEPT
                        !.exc = ~answered,
                        !.sel = Selected(s, Options(Uid(s))),
                        !.db = db,
                        !.retrieved = TRUE,
                        !.rel = rel,
                        !.q = q,
                        !.prompts = IF found THEN <<ComposePrompt(rel, q)>> ELSE <<>>,
                        !.resp = IF answered THEN r ELSE None,
                        !.answer = IF found THEN Shown(genOk, r) ELSE <<>>]
           /\ ss' = [ss EXCEPT ![s] = AfterQuery(s, answered)]
           /\ sel' = [sel EXCEPT ![s] = Selected(s, Options(Uid(s)))]
    /\ UNCHANGED <<users, files, disk, prov, emb, pureVars>>

(* ------------------------------------------------------------------------ *)
(* The session model                                                        *)
(* ------------------------------------------------------------------------ *)
\* one re-run of the script by one of the sessions S, with the users' inputs
\* drawn from the given sets
NextFor(S, E, F, T, Q, maxRows, maxHist) ==
    \E s \in S :
      \/ \E e \in E : SignUp(s, e, "pw")
      \/ \E e \in E, pw \in Passwords : Login(s, e, pw)
      \/ Logout(s)
      \/ Navigate(s)
      \/ \E ok \in BOOLEAN : StudyTurn(s, StudyQuestion, ok, StudyReply, maxHist)
      \/ \E up \in [name : F, text : T] : Upload(s, up)
      \/ \E up \in [name : F, text : T] : Save(s, up, maxRows)
      \/ \E f \in F, up \in [name : F, text : T] \cup {NoUpload} : Delete(s, f, up)
      \/ \E f \in F : SelectFile(s, f)
      \/ \E ok \in BOOLEAN : ProcessFile(s, ok)
      \/ \E q \in Q, r \in Responses : Query(s, q, TRUE, TRUE, r)
      \/ \E q \in Q, sok \in BOOLEAN : Query(s, q, sok, FALSE, None)

\* one browser session of one user with two files
Next == NextFor({"s1"}, {"e1"}, FileNames, FileTexts, Questions, MaxFileRows, MaxHist)
Spec == Init /\ [][Next]_vars

\* two browser sessions and two users sharing the database and the upload directory
NextShared ==
    NextFor(Sessions, Emails, {"n1"}, {SharedText}, {SharedQuestion},
            MaxSharedRows, MaxSharedHist)
SpecShared == Init /\ [][NextShared]_vars

(* ------------------------------------------------------------------------ *)
(* The chunker alone: get_chunks applied to every text up to MaxLen         *)
(* ------------------------------------------------------------------------ *)
InitChunks ==
    /\ InitSession
    /\ emb = [t \in SessionTexts |-> Embed(t)]
    /\ text \in TextsUpTo(MaxLen)
    /\ chunks = <<>>
    /\ docs = <<>>
    /\ store = NoDb
    /\ results = <<>>
    /\ pc = "chunk"

Chunk ==
    /\ pc = "chunk"
    /\ chunks' = get_chunks(text)
    /\ pc' = "chunked"
    /\ UNCHANGED <<sessionVars, emb, text, docs, store, results>>

SpecChunks == InitChunks /\ [][Chunk]_vars

(* ------------------------------------------------------------------------ *)
(* The index alone: built from any list of chunks under any embedding,      *)
(* then searched                                                            *)
(* ------------------------------------------------------------------------ *)
InitSearch ==
    /\ InitSession
    /\ emb \in [ChunkTexts \cup {QueryText} -> Vecs]
    /\ docs \in SeqsUpTo(ChunkTexts, MaxChunks)
    /\ text = <<>>
    /\ chunks = <<>>
    /\ store = NoDb
    /\ results = <<>>
    /\ pc = "build"

\* db = get_vector_store(chunks)
Build ==
    /\ pc = "build"
    /\ IF BuildOk(docs, TRUE)
       THEN store' = get_vector_store(docs, emb) /\ pc' = "built"
       ELSE store' = store /\ pc' = "failed"
    /\ UNCHANGED <<sessionVars, emb, text, chunks, docs, results>>

\* get_rel_text(q, db)
Search ==
    /\ pc = "built"
    /\ results' = get_rel_text(QueryText, store, emb)
    /\ pc' = "searched"
    /\ UNCHANGED <<sessionVars, emb, text, chunks, docs, store>>

NextSearch == Build \/ Search
SpecSearch == InitSearch /\ [][NextSearch]_vars

(* ------------------------------------------------------------------------ *)
(* Properties                                                               *)
(* ------------------------------------------------------------------------ *)
Range(f) == { f[i] : i \in DOMAIN f }

\* The chunks cs[i..] can be laid over t, in order, from the first `covered`
\* characters on: each chunk is a substring of t that starts at most ChunkOverlap
\* characters before the end of what is covered and does not end before it, and
\* every character left between or after the chunks is skipped only when
\* `gaps` allows it and it is whitespace.
RECURSIVE Laid(_, _, _, _, _)
Laid(t, cs, i, covered, gaps) ==
    IF i > Len(cs)
    THEN \A p \in (covered + 1)..Len(t) : gaps /\ t[p] \in Whitespace
    ELSE \E st \in Max(1, covered + 1 - ChunkOverlap)..(Len(t) - Len(cs[i]) + 1) :
           /\ MatchAt(t, st, cs[i])
           /\ \A p \in (covered + 1)..(st - 1) : gaps /\ t[p] \in Whitespace
           /\ st + Len(cs[i]) - 1 >= covered
           /\ Laid(t, cs, i + 1, Max(covered, st + Len(cs[i]) - 1), gaps)

Picks(m, n) == { p \in [1..n -> 1..m] : \A a, b \in 1..n : a # b => p[a] # p[b] }

\* C8: get_rel_text returns min(TopK, N) texts, each from a different stored
\* chunk, from the most to the least similar to the query, and no chunk left out
\* is more similar than one returned; with N <= TopK every chunk is returned once.
SearchReturnsNearestInOrder ==
    pc = "searched" =>
      LET n == Len(docs)
          d(i) == Dist(emb[docs[i]], emb[QueryText])
      IN  /\ Len(results) = Min(TopK, n)
          /\ \E p \in Picks(n, Len(results)) :
               /\ \A a \in 1..Len(results) : results[a] = docs[p[a]]
               /\ \A a, b \in 1..Len(results) : a < b => d(p[a]) <= d(p[b])
               /\ \A j \in (1..n) \ Range(p) : \A a \in 1..Len(results) : d(p[a]) <= d(j)
               /\ n <= TopK => Range(p) = 1..n

\* a search of an index of more than TopK chunks at different distances
SearchedLargeIndex ==
    /\ pc = "searched"
    /\ Len(docs) > TopK
    /\ Len(results) = TopK
    /\ Dist(emb[docs[1]], emb[QueryText]) > Dist(emb[docs[Len(docs)]], emb[QueryText])
    /\ results[1] # docs[1]

\* the prompt p is: the context label, the chunks in order with one " " between
\* neighbours, the question label, the question, the tutoring instruction
RECURSIVE ChunksAt(_, _, _, _)
ChunksAt(p, rel, i, at) ==
    IF i > Len(rel) THEN at
    ELSE IF /\ at + Len(rel[i]) <= Len(p)
            /\ SubSeq(p, at + 1, at + Len(rel[i])) = rel[i]
            /\ (i < Len(rel) => at + Len(rel[i]) + 1 <= Len(p) /\ p[at + Len(rel[i]) + 1] = " ")
         THEN ChunksAt(p, rel, i + 1, at + Len(rel[i]) + (IF i < Len(rel) THEN 1 ELSE 0))
         ELSE -1
PromptShape(p, rel, q) ==
    /\ Len(p) >= 1 /\ p[1] = "Context: "
    /\ LET c == ChunksAt(p, rel, 1, 1)
       IN  /\ c >= 1
           /\ Len(p) = c + Len(q) + 2
           /\ p[c + 1] = "\n\nQuestion: "
           /\ SubSeq(p, c + 2, c + 1 + Len(q)) = q
           /\ p[Len(p)] = "\nAnswer as a tutor:"

\* the composition for every list of up to TopK chunks, the empty one included
ComposedForEveryList ==
    \A rel \in SeqsUpTo({ <<"a", " ", "b">>, <<"b">> }, TopK) :
      \A q \in Questions \cup { <<"?">> } :
        PromptShape(ComposePrompt(rel, q), rel, q)

\* C9: a question answered from the notes sends one prompt of the stated shape,
\* made of the chunks retrieved and the question typed, and shows the response of
\* the generation service as it is; the composition is of that shape for any list
\* of chunks and any question.
AnswerComposedAndShownVerbatim ==
    /\ ComposedForEveryList
    /\ (out.op = "query" /\ ~out.exc) =>
         /\ Len(out.prompts) = 1
         /\ PromptShape(out.prompts[1], out.rel, out.q)
         /\ out.rel = get_rel_text(out.q, out.db, emb)
         /\ out.resp \in Responses
         /\ out.answer = <<out.resp>>

\* a question answered from several retrieved chunks
AnsweredFromSeveralChunks ==
    /\ out.op = "query" /\ ~out.exc
    /\ Len(out.rel) = TopK
    /\ out.answer = <<"r2">>

\* C1 as stated: a failed Process File leaves the session without an index.
FailedBuildLeavesNoIndex ==
    (out.op = "process" /\ out.exc) => ~Has(out.sess, "notes_db")

\* C2 as stated: a question is answered from the index of the file that is
\* selected in the selectbox (the file the index was built from still being one
\* of the user's files).
AnsweredFromSelectedFile ==
    (/\ out.op = "query" /\ ~out.exc
     /\ prov[out.sess].src \in Range(Options(Uid(out.sess))))
      => prov[out.sess].src = out.sel

\* C3: a session holds an index only while a user is logged in to it, and the
\* index was built in that session by that user from a file stored for that user;
\* a session nobody is logged in to holds no index and no chat history, and a
\* session somebody is logged in to holds no chat history of anybody else.
IndexOwnedBySessionUser ==
    \A s \in Sessions :
      /\ Has(s, "notes_db") =>
           /\ LoggedIn(s)
           /\ prov[s].owner = Uid(s)
           /\ prov[s].sess = s
           /\ prov[s].path = FilePath(Uid(s), prov[s].src)
      /\ ~LoggedIn(s) =>
           /\ ~Has(s, "notes_db")
           /\ Has(s, "messages") => DOMAIN ss[s]["messages"] = {}
      /\ LoggedIn(s) => DOMAIN ss[s]["messages"] = {Uid(s)}

\* one user logged out of a session while the other user holds an index in the
\* other session
LoggedOutBesideAnIndex ==
    /\ out.op = "logout"
    /\ ~LoggedIn(out.sess)
    /\ \E s \in Sessions \ {out.sess} : Has(s, "notes_db") /\ Uid(s) = 2

\* C4: whenever get_rel_text is called the session holds an index, the one it is
\* called with, built by a successful Process File of the user logged in.
RetrievalOnlyWithIndex ==
    out.retrieved =>
      /\ out.db # NoDb
      /\ Has(out.sess, "notes_db") /\ ss[out.sess]["notes_db"] = out.db
      /\ prov[out.sess] # NoProv
      /\ prov[out.sess].owner = Uid(out.sess)
      /\ prov[out.sess].sess = out.sess

\* get_rel_text called for a question
RetrievalCalled ==
    /\ out.op = "query" /\ out.retrieved
    /\ out.rel # <<>>

\* C5: a question that fails (in the search or in the generation) leaves the
\* index of the session as it was, still offered for questions, and shows no
\* answer.
FailedQueryKeepsIndex ==
    (out.op = "query" /\ out.exc) =>
      /\ Has(out.sess, "notes_db")
      /\ ss[out.sess]["notes_db"] = out.db
      /\ out.db # NoDb
      /\ ChatPage(out.sess)
      /\ out.answer = <<>>
      /\ out.resp = None

\* a question whose generation call failed after the retrieval
GenerationFailed ==
    /\ out.op = "query" /\ out.exc
    /\ Len(out.prompts) = 1

\* C6: after a successful Process File the index holds exactly the chunks of the
\* file processed, and a question leaves the index as it was.
IndexIsTheFileProcessed ==
    /\ (out.op = "process" /\ ~out.exc) =>
         /\ Has(out.sess, "notes_db")
         /\ FilePath(Uid(out.sess), out.sel) \in DOMAIN disk
         /\ ss[out.sess]["notes_db"].texts
              = get_chunks(disk[FilePath(Uid(out.sess), out.sel)])
         /\ Len(ss[out.sess]["notes_db"].vecs) = Len(ss[out.sess]["notes_db"].texts)
    /\ out.op = "query" =>
         Has(out.sess, "notes_db") /\ ss[out.sess]["notes_db"] = out.db

\* a file processed in a session that held the index of other contents
ReprocessedOverAnotherIndex ==
    /\ out.op = "process" /\ ~out.exc
    /\ out.db # NoDb
    /\ out.db.texts # ss[out.sess]["notes_db"].texts

\* C10 as stated: the stored chat history of the user logged in has even length
\* and alternates user and model messages.
HistoryAlternates ==
    \A s \in Sessions :
      (LoggedIn(s) /\ Has(s, "messages") /\ Uid(s) \in DOMAIN ss[s]["messages"]) =>
        LET h == ss[s]["messages"][Uid(s)]
        IN  /\ Len(h) % 2 = 0
            /\ \A i \in 1..Len(h) : h[i].role = (IF i % 2 = 1 THEN "user" ELSE "model")

====
